---- MODULE Spec2Model ----
(***************************************************************************)
(* Model of app.py (Lyreco Accessibility Monitor, version 7.0): the score  *)
(* calculator, the recommendation engine, run_audit, the Start Audit loop  *)
(* and the aggregation done by analyze_with_ai / display_dashboard.        *)
(*                                                                         *)
(* Numbers.  A Python float is modelled as an exact decimal counted in     *)
(* hundredths (87.5 is 8750); a Python int is a TLA+ integer.  The binary  *)
(* representation error of a float (about 1e-14 here) shows only when a    *)
(* value is rounded at an exact decimal tie (x.x5): there round(x, 1) goes  *)
(* to either neighbour, as the error falls.  The model draws the          *)
(* direction once per behaviour (tie_up): every call can round a tie       *)
(* either way, and calls compared with each other round alike.  NaN, the   *)
(* infinities and integers beyond the float range are outside the model.   *)
(*                                                                         *)
(* Values.  Anything that arrives untyped (a JSON field, an argument of    *)
(* safe_int) is a tagged record [t, v]: None, an int, a float or a         *)
(* non-numeric string such as "abc".                                       *)
(***************************************************************************)
EXTENDS Integers, Sequences, FiniteSets

VARIABLES
    pc,               \* position of the modelled call / of the script
    tie_up,           \* whether round(x, 1) takes a decimal tie up
    lh_pct, w_err, w_con, final_score,      \* calculate_lyreco_score: arguments, result
    rec_args, recommendations,              \* generate_recommendations: arguments, result
    r_lh, r_w,        \* run_audit: what the Lighthouse and the WAVE call answered
    record, warnings, \* run_audit: the record returned, the st.warning calls made
    country_selection, results, current,    \* Start Audit: selection, results list, counter
    df, metrics, pivot_df, summary          \* the DataFrame and what is aggregated from it

scoreVars == <<lh_pct, w_err, w_con, final_score>>
recVars == <<rec_args, recommendations>>
callVars == <<r_lh, r_w, record, warnings>>
loopVars == <<country_selection, results, current>>
aggVars == <<df, metrics, pivot_df, summary>>
vars == <<pc, tie_up, scoreVars, recVars, callVars, loopVars, aggVars>>

\* The value of a variable that the specification at hand does not use.
Idle == <<>>
ScoreIdle == lh_pct = Idle /\ w_err = Idle /\ w_con = Idle /\ final_score = 0
RecIdle == rec_args = Idle /\ recommendations = Idle
CallIdle == r_lh = Idle /\ r_w = Idle /\ record = Idle /\ warnings = Idle
LoopIdle == country_selection = Idle /\ results = Idle /\ current = 0
AggIdle == df = Idle /\ metrics = Idle /\ pivot_df = Idle /\ summary = Idle

----------------------------------------------------------------------------
(* Untyped values *)

None == [t |-> "none", v |-> 0]
Int_(n) == [t |-> "int", v |-> n]
Float_(h) == [t |-> "float", v |-> h]
Str_ == [t |-> "str", v |-> 0]

Max(a, b) == IF a >= b THEN a ELSE b

\* int(x) of a float counted in hundredths: truncation toward zero.
Trunc(h) == IF h >= 0 THEN h \div 100 ELSE -((-h) \div 100)

\* Whether int(value) / float(value) raises (ValueError on "abc",
\* TypeError on None).
Raises(value) == value.t \in {"str", "none"}

\* int(value), where it does not raise.
PyInt(value) == IF value.t = "float" THEN Trunc(value.v) ELSE value.v

\* float(value) in hundredths, where it does not raise.
PyFloat(value) == IF value.t = "int" THEN 100 * value.v ELSE value.v

safe_int(value) ==
    IF value.t = "none" THEN 0
    ELSE IF Raises(value) THEN 0
    ELSE PyInt(value)

safe_float(value) ==
    IF value.t = "none" THEN 0
    ELSE IF Raises(value) THEN 0
    ELSE PyFloat(value)

\* round(num/den, 1) for a quantity num/den hundredths (den > 0): the
\* nearest multiple of ten hundredths; at a decimal tie the float lies on
\* one side or the other (or, exactly representable, goes to the even
\* tenth), which tie_up decides.
Round1(num, den) ==
    LET unit == 10 * den
        q == num \div unit
        r == num % unit
    IN  IF 2 * r < unit THEN 10 * q
        ELSE IF 2 * r > unit THEN 10 * (q + 1)
        ELSE IF tie_up THEN 10 * (q + 1) ELSE 10 * q

----------------------------------------------------------------------------
(* Scoring *)

\* Variants of calculate_lyreco_score, each with one slip.
\* The Lighthouse half is not halved.
score_unweighted(lh, err, con) ==
    LET lh_ == safe_float(lh)
        wave_base == Max(0, 10000 - safe_int(err) * 120 - safe_int(con) * 50)
        final2 == IF lh_ > 0 THEN 2 * lh_ + wave_base ELSE 2 * wave_base
    IN  Round1(Max(0, final2), 2)

\* The branch is taken for lh_pct >= 0 instead of > 0.
score_branch_ge(lh, err, con) ==
    LET lh_ == safe_float(lh)
        wave_base == Max(0, 10000 - safe_int(err) * 120 - safe_int(con) * 50)
        final2 == IF lh_ >= 0 THEN lh_ + wave_base ELSE 2 * wave_base
    IN  Round1(Max(0, final2), 2)

\* The contrast penalty is added instead of subtracted.
score_contrast_sign(lh, err, con) ==
    LET lh_ == safe_float(lh)
        wave_base == Max(0, 10000 - safe_int(err) * 120 + safe_int(con) * 50)
        final2 == IF lh_ > 0 THEN lh_ + wave_base ELSE 2 * wave_base
    IN  Round1(Max(0, final2), 2)

\* The WAVE base is not clamped at zero; only the final score is.
score_unclamped_base(lh, err, con) ==
    LET lh_ == safe_float(lh)
        wave_base == 10000 - safe_int(err) * 120 - safe_int(con) * 50
        final2 == IF lh_ > 0 THEN lh_ + wave_base ELSE 2 * wave_base
    IN  Round1(Max(0, final2), 2)

calculate_lyreco_score(lh, err, con) ==
    LET lh_ == safe_float(lh)
        e == safe_int(err)
        c == safe_int(con)
        err_penalty == e * 120
        con_penalty == c * 50
        wave_base == Max(0, 10000 - err_penalty - con_penalty)
        \* twice the final score, so that the two halves stay exact
        final2 == IF lh_ > 0 THEN lh_ + wave_base ELSE 2 * wave_base
    IN  Round1(Max(0, final2), 2)

----------------------------------------------------------------------------
(* Recommendations *)

\* One recommendation string: its severity or triage label, what it is
\* about, and the count it quotes.
\*   "CRITICAL: Fix {n} ARIA issues (screen readers)"   Rec("CRITICAL", "aria", n)
\*   "CRITICAL: Add alt text to {n} images"             Rec("CRITICAL", "alt", n)
\*   "HIGH: Fix {n} contrast issues (WCAG AA)"          Rec("HIGH", "contrast", n)
\*   "MEDIUM: Improve {n} contrast ratios"              Rec("MEDIUM", "contrast", n)
\*   "HIGH: {n} accessibility errors detected"          Rec("HIGH", "errors", n)
\*   "MEDIUM: {n} errors need attention"                Rec("MEDIUM", "errors", n)
\*   "ACTION REQUIRED: Critical barriers present"       Rec("ACTION REQUIRED", "score", 0)
\*   "PLAN: Schedule fixes in next sprint"              Rec("PLAN", "score", 0)
\*   "MAINTAIN: Monitor for regressions"                Rec("MAINTAIN", "score", 0)
Rec(label, about, n) == [label |-> label, about |-> about, n |-> n]

\* "No major issues detected"
NoMajorIssues == Rec("OK", "none", 0)

\* Variants of generate_recommendations, each with one slip.
\* The fallback to the sentinel is missing.
recommendations_no_sentinel(score, lh_val, wave_err, contrast, aria_issues, alt_issues) ==
    LET s == safe_float(score)
        we == safe_int(wave_err)
        co == safe_int(contrast)
        ar == safe_int(aria_issues)
        al == safe_int(alt_issues)
    IN  (IF ar > 0 THEN <<Rec("CRITICAL", "aria", ar)>> ELSE <<>>)
        \o (IF al > 0 THEN <<Rec("CRITICAL", "alt", al)>> ELSE <<>>)
        \o (IF co > 10 THEN <<Rec("HIGH", "contrast", co)>>
            ELSE IF co > 0 THEN <<Rec("MEDIUM", "contrast", co)>> ELSE <<>>)
        \o (IF we > 20 THEN <<Rec("HIGH", "errors", we)>>
            ELSE IF we > 5 THEN <<Rec("MEDIUM", "errors", we)>> ELSE <<>>)
        \o (IF s < 6000 THEN <<Rec("ACTION REQUIRED", "score", 0)>>
            ELSE IF s < 8000 THEN <<Rec("PLAN", "score", 0)>>
            ELSE IF s >= 9000 THEN <<Rec("MAINTAIN", "score", 0)>> ELSE <<>>)

\* The alt-text check comes after the contrast check.
recommendations_alt_late(score, lh_val, wave_err, contrast, aria_issues, alt_issues) ==
    LET s == safe_float(score)
        we == safe_int(wave_err)
        co == safe_int(contrast)
        ar == safe_int(aria_issues)
        al == safe_int(alt_issues)
        rs == (IF ar > 0 THEN <<Rec("CRITICAL", "aria", ar)>> ELSE <<>>)
              \o (IF co > 10 THEN <<Rec("HIGH", "contrast", co)>>
                  ELSE IF co > 0 THEN <<Rec("MEDIUM", "contrast", co)>> ELSE <<>>)
              \o (IF al > 0 THEN <<Rec("CRITICAL", "alt", al)>> ELSE <<>>)
              \o (IF we > 20 THEN <<Rec("HIGH", "errors", we)>>
                  ELSE IF we > 5 THEN <<Rec("MEDIUM", "errors", we)>> ELSE <<>>)
              \o (IF s < 6000 THEN <<Rec("ACTION REQUIRED", "score", 0)>>
                  ELSE IF s < 8000 THEN <<Rec("PLAN", "score", 0)>>
                  ELSE IF s >= 9000 THEN <<Rec("MAINTAIN", "score", 0)>> ELSE <<>>)
    IN  IF rs # <<>> THEN rs ELSE <<NoMajorIssues>>

generate_recommendations(score, lh_val, wave_err, contrast, aria_issues, alt_issues) ==
    LET s == safe_float(score)
        lh == safe_float(lh_val)
        we == safe_int(wave_err)
        co == safe_int(contrast)
        ar == safe_int(aria_issues)
        al == safe_int(alt_issues)
        rs == (IF ar > 0 THEN <<Rec("CRITICAL", "aria", ar)>> ELSE <<>>)
              \o (IF al > 0 THEN <<Rec("CRITICAL", "alt", al)>> ELSE <<>>)
              \o (IF co > 10 THEN <<Rec("HIGH", "contrast", co)>>
                  ELSE IF co > 0 THEN <<Rec("MEDIUM", "contrast", co)>> ELSE <<>>)
              \o (IF we > 20 THEN <<Rec("HIGH", "errors", we)>>
                  ELSE IF we > 5 THEN <<Rec("MEDIUM", "errors", we)>> ELSE <<>>)
              \o (IF s < 6000 THEN <<Rec("ACTION REQUIRED", "score", 0)>>
                  ELSE IF s < 8000 THEN <<Rec("PLAN", "score", 0)>>
                  ELSE IF s >= 9000 THEN <<Rec("MAINTAIN", "score", 0)>> ELSE <<>>)
    IN  IF rs # <<>> THEN rs ELSE <<NoMajorIssues>>

----------------------------------------------------------------------------
(* run_audit *)

\* A key that the JSON object does not have; d.get(key, default).
Absent == [t |-> "absent", v |-> 0]
Get(field, default) == IF field.t = "absent" THEN default ELSE field

\* An audit's title: a string, null, or no 'title' key.
Title(s) == [t |-> "str", s |-> s]
NullTitle == [t |-> "none", s |-> "None"]
NoTitle == [t |-> "absent", s |-> ""]

\* 'aria' in audit_id.lower(), 'image-alt' in audit_id and
\* 'alt' in str(title).lower(), over the ids and titles of AuditCatalog.
HasAria(audit_id) == audit_id \in {"aria-roles", "ARIA-hidden-focus"}
HasImageAlt(audit_id) == audit_id \in {"image-alt", "input-image-alt"}
HasAlt(title) == title.s \in {"Image elements have [alt] attributes"}

\* The state of the Lighthouse try block: what it has assigned, and
\* whether an exception ended it.
LhState(lh_val, failed_audits, aria_issues, alt_issues, raised) ==
    [lh_val |-> lh_val, failed_audits |-> failed_audits, aria_issues |-> aria_issues,
     alt_issues |-> alt_issues, raised |-> raised]

\* for audit_id, audit_data in audits.items(): ...  An entry that is no
\* dict (AttributeError on .get) or whose score is a string (TypeError on
\* score_val < 1) ends the loop, and the block, with what was counted so far.
RECURSIVE AuditsLoop(_, _)
AuditsLoop(audits, st) ==
    IF audits = <<>> THEN st
    ELSE
        LET a == Head(audits)
            score_val == Get(a.score, Int_(1))
            title == IF a.title.t = "absent" THEN Title("Unknown") ELSE a.title
        IN  IF ~a.dict THEN [st EXCEPT !.raised = TRUE]
            ELSE IF score_val.t = "none" THEN AuditsLoop(Tail(audits), st)
            ELSE IF score_val.t = "str" THEN [st EXCEPT !.raised = TRUE]
            ELSE IF PyFloat(score_val) < 100
                 THEN AuditsLoop(Tail(audits),
                          [st EXCEPT
                              !.failed_audits = Append(@, title),
                              !.aria_issues = IF HasAria(a.id) THEN @ + 1 ELSE @,
                              !.alt_issues = IF HasImageAlt(a.id) \/ HasAlt(title)
                                             THEN @ + 1 ELSE @])
            ELSE AuditsLoop(Tail(audits), st)

\* The Lighthouse try block.  resp.outcome: "exception" (requests.get
\* raised: unreachable, timeout), "status" (a status other than 200),
\* "badjson" (200, and r_lh.json() raised or gave no dict), "ok".
\* resp.score is a fraction counted in hundredths (0.87 is 87).
LighthouseBlock(resp) ==
    LET st0 == LhState(0, <<>>, 0, 0, FALSE)
    IN  IF resp.outcome \in {"exception", "badjson"} THEN [st0 EXCEPT !.raised = TRUE]
        ELSE IF resp.outcome = "status" THEN st0
        ELSE
            LET score_value == Get(resp.score, None)
            IN  IF score_value.t = "none" THEN AuditsLoop(resp.audits, st0)
                ELSE IF Raises(score_value) THEN [st0 EXCEPT !.raised = TRUE]
                ELSE AuditsLoop(resp.audits,
                                [st0 EXCEPT !.lh_val = PyFloat(score_value) * 100])

\* The state of the WAVE try blocks: err, con, and the warning made, if any.
WaveState(err, con, warning) == [err |-> err, con |-> con, warning |-> warning]

\* The WAVE try blocks.  resp.has_categories: 'categories' in dw;
\* resp.error and resp.contrast: Absent when the category is missing, else
\* the category's 'count' (None when it has none).  int(err_val) raising
\* leaves the inner try block before the contrast count is read.
WaveBlock(resp) ==
    LET st0 == WaveState(0, 0, "")
    IN  IF resp.outcome = "exception" THEN [st0 EXCEPT !.warning = "WAVE request error"]
        ELSE IF resp.outcome = "status" THEN [st0 EXCEPT !.warning = "WAVE API returned status"]
        ELSE IF resp.outcome = "badjson" THEN [st0 EXCEPT !.warning = "WAVE parsing error"]
        ELSE IF ~resp.has_categories THEN st0
        ELSE
            LET err_val == Get(resp.error, None)
                con_val == Get(resp.contrast, None)
                st1 == IF err_val.t = "none" THEN st0
                       ELSE IF Raises(err_val)
                            THEN [st0 EXCEPT !.warning = "WAVE parsing error"]
                       ELSE [st0 EXCEPT !.err = PyInt(err_val)]
            IN  IF st1.warning # "" THEN st1
                ELSE IF con_val.t = "none" THEN st1
                ELSE IF Raises(con_val)
                     THEN [st1 EXCEPT !.warning = "WAVE parsing error"]
                ELSE [st1 EXCEPT !.con = PyInt(con_val)]

\* failed_audits[:3]
Top3(failed_audits) ==
    SubSeq(failed_audits, 1, IF Len(failed_audits) < 3 THEN Len(failed_audits) ELSE 3)

\* "; ".join(...) raises TypeError on an item that is no str.
JoinRaises(titles) == \E i \in 1..Len(titles) : titles[i].t # "str"

\* A target of an audit: what run_audit is called with.
Target(country, page_type, url) ==
    [country |-> country, page_type |-> page_type, url |-> url]

\* run_audit(url, page_type, country, deploy_version) with the answers of
\* the two upstream calls.  The result says whether the call raised, the
\* record it returned otherwise, and the warnings it made on the way.  The
\* joined strings are kept as the sequences they join; Timestamp and
\* Deploy_Version, which no computation reads, are left out of the record.
run_audit(target, lh_resp, w_resp) ==
    LET lh == LighthouseBlock(lh_resp)
        w == WaveBlock(w_resp)
        score == calculate_lyreco_score(Float_(lh.lh_val), Int_(w.err), Int_(w.con))
        recs == generate_recommendations(Float_(score), Float_(lh.lh_val), Int_(w.err),
                                         Int_(w.con), Int_(lh.aria_issues),
                                         Int_(lh.alt_issues))
        top == Top3(lh.failed_audits)
    IN  [raised |-> JoinRaises(top),
         warnings |-> (IF lh.raised THEN <<"Lighthouse error">> ELSE <<>>)
                      \o (IF w.warning # "" THEN <<w.warning>> ELSE <<>>),
         record |-> [Country |-> target.country,
                     PageType |-> target.page_type,
                     URL |-> target.url,
                     Score |-> score,
                     Lighthouse |-> lh.lh_val,
                     WaveErrors |-> w.err,
                     ContrastIssues |-> w.con,
                     AriaIssues |-> lh.aria_issues,
                     AltTextIssues |-> lh.alt_issues,
                     TopFailedAudits |-> [i \in 1..Len(top) |-> top[i].s],
                     Recommendations |-> recs]]

----------------------------------------------------------------------------
(* Aggregation over the DataFrame *)

\* df[col].sum()
RECURSIVE SumCol(_, _)
SumCol(rows, col) ==
    IF rows = <<>> THEN 0 ELSE Head(rows)[col] + SumCol(Tail(rows), col)

\* df[df[col] == value]
RECURSIVE Where(_, _, _)
Where(rows, col, value) ==
    IF rows = <<>> THEN <<>>
    ELSE IF Head(rows)[col] = value
         THEN <<Head(rows)>> \o Where(Tail(rows), col, value)
    ELSE Where(Tail(rows), col, value)

\* df[col].mean(), rounded to one decimal (round(x, 1), .round(1), ":.1f")
MeanCol1(rows, col) == Round1(SumCol(rows, col), Len(rows))

Unique(rows, col) == { rows[i][col] : i \in 1..Len(rows) }

\* df.pivot_table(values='Score', index='Country', columns='Page Type',
\* aggfunc='first'): per (country, page type) the Score of the first row.
PivotFirst(rows) ==
    [ key \in { <<rows[i].Country, rows[i].PageType>> : i \in 1..Len(rows) } |->
        Head(Where(Where(rows, "Country", key[1]), "PageType", key[2])).Score ]

\* The four st.metric values of display_dashboard.
Metrics(rows) ==
    [average_score |-> MeanCol1(rows, "Score"),
     aria_issues |-> SumCol(rows, "AriaIssues"),
     alt_issues |-> SumCol(rows, "AltTextIssues"),
     contrast_issues |-> SumCol(rows, "ContrastIssues")]

\* The summary of analyze_with_ai, without worst_pages and best_pages.
Summary(rows) ==
    [total_pages |-> Len(rows),
     average_score |-> MeanCol1(rows, "Score"),
     countries |-> Unique(rows, "Country"),
     total_aria_issues |-> SumCol(rows, "AriaIssues"),
     total_alt_issues |-> SumCol(rows, "AltTextIssues"),
     total_contrast |-> SumCol(rows, "ContrastIssues"),
     total_wave_errors |-> SumCol(rows, "WaveErrors"),
     by_country |->
         [ c \in Unique(rows, "Country") |->
             LET g == Where(rows, "Country", c)
             IN  [Score |-> MeanCol1(g, "Score"),
                  AriaIssues |-> SumCol(g, "AriaIssues"),
                  AltTextIssues |-> SumCol(g, "AltTextIssues"),
                  ContrastIssues |-> SumCol(g, "ContrastIssues"),
                  WaveErrors |-> SumCol(g, "WaveErrors")] ]]

----------------------------------------------------------------------------
(* Bounds of the score calculator's inputs *)

MaxErr == 20
MaxCon == 4

\* lighthouse_pct over [0,100] in steps of 1.25: the scores to round fall
\* below, on and above the decimal ties
LhInputs == {125 * k : k \in 0..80}
\* 83 and 84 errors straddle the point where the WAVE base reaches zero
ErrInputs == (0..MaxErr) \cup {83, 84, 1000}
ConInputs == (0..MaxCon) \cup {1000}

InitScore ==
    /\ pc = "score_call"
    /\ tie_up \in BOOLEAN
    /\ lh_pct \in {Float_(h) : h \in LhInputs}
    /\ w_err \in {Int_(n) : n \in ErrInputs}
    /\ w_con \in {Int_(n) : n \in ConInputs}
    /\ final_score = 0
    /\ RecIdle /\ CallIdle /\ LoopIdle /\ AggIdle

CalcScore ==
    /\ pc = "score_call"
    /\ tie_up \in BOOLEAN
    /\ final_score' = calculate_lyreco_score(lh_pct, w_err, w_con)
    /\ pc' = "score_done"
    /\ UNCHANGED <<tie_up, lh_pct, w_err, w_con, recVars, callVars, loopVars, aggVars>>

NextScore == CalcScore

SpecScore == InitScore /\ [][NextScore]_vars

----------------------------------------------------------------------------
(* Claims about calculate_lyreco_score, checked under SpecScore *)

ScoreDone == pc = "score_done"

\* C1: for lighthouse_pct in [0,100] and non-negative wave_errors and
\* wave_contrast the returned score lies in [0,100] and is a multiple of
\* 0.1: never negative, never above 100.
C1_ScoreInRange ==
    (ScoreDone /\ lh_pct.v >= 0 /\ lh_pct.v <= 10000 /\ w_err.v >= 0 /\ w_con.v >= 0)
        => (final_score >= 0 /\ final_score <= 10000 /\ final_score % 10 = 0)

\* C1 witness: score(1.25, 84, 0): the WAVE base is clamped to 0 and the
\* exact value 0.625 is rounded to 0.6.
C1_Witness ==
    ScoreDone /\ lh_pct.v = 125 /\ w_err.v = 84 /\ w_con.v = 0 /\ final_score = 60

\* C2: with lighthouse_pct = 0 the score is the WAVE-only estimate
\* max(0, 100 - 1.2*wave_errors - 0.5*contrast), which is already a multiple
\* of 0.1; in particular score(0, 0, 0) = 100.0.
C2_WaveOnlyAtZero ==
    (ScoreDone /\ lh_pct.v = 0 /\ w_err.v >= 0 /\ w_con.v >= 0)
        => /\ final_score = Max(0, 10000 - 120 * w_err.v - 50 * w_con.v)
           /\ (w_err.v = 0 /\ w_con.v = 0) => final_score = 10000

\* C2 witness: score(0, 0, 0) was computed and is 100.0.
C2_Witness ==
    ScoreDone /\ lh_pct.v = 0 /\ w_err.v = 0 /\ w_con.v = 0 /\ final_score = 10000

\* C3: the score never increases when wave_errors or wave_contrast
\* increases, and never decreases when lighthouse_pct increases within
\* (0,100], the other two arguments being fixed.
C3_Monotonic ==
    ScoreDone =>
        /\ \A e2 \in ErrInputs :
               e2 > w_err.v =>
                   calculate_lyreco_score(lh_pct, Int_(e2), w_con) <= final_score
        /\ \A c2 \in ConInputs :
               c2 > w_con.v =>
                   calculate_lyreco_score(lh_pct, w_err, Int_(c2)) <= final_score
        /\ lh_pct.v > 0 =>
               \A l2 \in LhInputs :
                   l2 > lh_pct.v =>
                       calculate_lyreco_score(Float_(l2), w_err, w_con) >= final_score

\* C3 witness: a call whose score strictly drops with one more error, and
\* with one more contrast issue, and strictly rises with more Lighthouse.
C3_Witness ==
    /\ ScoreDone /\ lh_pct.v = 5000 /\ w_err.v = 10 /\ w_con.v = 2
    /\ calculate_lyreco_score(lh_pct, Int_(11), w_con) < final_score
    /\ calculate_lyreco_score(lh_pct, w_err, Int_(3)) < final_score
    /\ calculate_lyreco_score(Float_(6000), w_err, w_con) > final_score

\* C4 as stated: calculate_lyreco_score(50, 1000, 1000) is exactly 0.0.
C4_Original ==
    (ScoreDone /\ lh_pct.v = 5000 /\ w_err.v = 1000 /\ w_con.v = 1000)
        => final_score = 0

\* C4 as amended: calculate_lyreco_score(50, 1000, 1000) is 25.0: the WAVE
\* base clamps to 0 and the Lighthouse half, 50 * 0.5, remains.
C4_ClampedBaseKeepsLighthouse ==
    (ScoreDone /\ lh_pct.v = 5000 /\ w_err.v = 1000 /\ w_con.v = 1000)
        => final_score = 2500

\* C4 witness: the call score(50, 1000, 1000) has returned.
C4_Witness ==
    ScoreDone /\ lh_pct.v = 5000 /\ w_err.v = 1000 /\ w_con.v = 1000
        /\ final_score > 0

----------------------------------------------------------------------------
(* generate_recommendations on drawn arguments *)

MaxIssues == 2

\* Scores at and around the triage bands, and two values that are no number.
ScoreArgs ==
    {None, Str_}
        \cup {Float_(h) : h \in {0, 5990, 6000, 7990, 8000, 8500, 8990, 9000, 10000}}
\* Counts at and around the thresholds 5, 10 and 20; a float count such as
\* 1.5 is truncated by safe_int.
CountArgs(thresholds) ==
    {None, Str_, Float_(150)} \cup {Int_(n) : n \in (-1..MaxIssues) \cup thresholds}
WaveErrArgs == CountArgs({5, 6, 20, 21})
ContrastArgs == CountArgs({10, 11})
IssueArgs == CountArgs({})

InitRec ==
    /\ pc = "rec_call"
    /\ tie_up = FALSE
    /\ rec_args \in [score : ScoreArgs, lh_val : {Float_(8000)},
                     wave_err : WaveErrArgs, contrast : ContrastArgs,
                     aria_issues : IssueArgs, alt_issues : IssueArgs]
    /\ recommendations = <<>>
    /\ ScoreIdle /\ CallIdle /\ LoopIdle /\ AggIdle

GenRecs ==
    /\ pc = "rec_call"
    /\ tie_up = FALSE
    /\ recommendations' =
           generate_recommendations(rec_args.score, rec_args.lh_val, rec_args.wave_err,
                                    rec_args.contrast, rec_args.aria_issues,
                                    rec_args.alt_issues)
    /\ pc' = "rec_done"
    /\ UNCHANGED <<tie_up, rec_args, scoreVars, callVars, loopVars, aggVars>>

NextRec == GenRecs

SpecRec == InitRec /\ [][NextRec]_vars

----------------------------------------------------------------------------
(* Claims about generate_recommendations, checked under SpecRec *)

RecDone == pc = "rec_done"

\* No condition of the ladder fires for the arguments.
NothingFires ==
    /\ safe_int(rec_args.aria_issues) <= 0
    /\ safe_int(rec_args.alt_issues) <= 0
    /\ safe_int(rec_args.contrast) <= 0
    /\ safe_int(rec_args.wave_err) <= 5
    /\ safe_float(rec_args.score) >= 8000
    /\ safe_float(rec_args.score) < 9000

\* C8: the returned list is never empty; when no ladder condition fires it
\* is exactly the single "No major issues detected" sentinel; the sentinel
\* never appears beside another item; when aria_issues > 0 the first item
\* is the CRITICAL entry about ARIA.
C8_NeverEmpty ==
    RecDone =>
        /\ Len(recommendations) >= 1
        /\ NothingFires => recommendations = <<NoMajorIssues>>
        /\ (\E i \in 1..Len(recommendations) : recommendations[i] = NoMajorIssues)
               => Len(recommendations) = 1
        /\ safe_int(rec_args.aria_issues) > 0
               => /\ recommendations[1].label = "CRITICAL"
                  /\ recommendations[1].about = "aria"

\* C8 witness: a call in which nothing fired returned the lone sentinel.
C8_Witness ==
    RecDone /\ NothingFires /\ recommendations = <<NoMajorIssues>>

Severity(r) ==
    CASE r.label = "CRITICAL" -> 3
      [] r.label = "HIGH" -> 2
      [] r.label = "MEDIUM" -> 1
      [] OTHER -> 0

\* The place of an entry's check in the code: ARIA, alt text, contrast,
\* WAVE errors, score triage.
LadderPos(r) ==
    CASE r.about = "aria" -> 1
      [] r.about = "alt" -> 2
      [] r.about = "contrast" -> 3
      [] r.about = "errors" -> 4
      [] OTHER -> 5

\* C9 as stated: among the entries that carry a severity, none of lower
\* severity precedes one of higher severity (CRITICAL, HIGH, MEDIUM).
C9_Original ==
    RecDone =>
        \A i, j \in 1..Len(recommendations) :
            (i < j /\ Severity(recommendations[i]) > 0 /\ Severity(recommendations[j]) > 0)
                => Severity(recommendations[i]) >= Severity(recommendations[j])

\* C9 as amended: the entries follow the order of the checks (ARIA, alt
\* text, contrast, WAVE errors, triage), so no HIGH or MEDIUM entry precedes
\* a CRITICAL one; HIGH and MEDIUM entries are not ordered among themselves.
C9_LadderOrder ==
    RecDone =>
        \A i, j \in 1..Len(recommendations) :
            i < j =>
                /\ LadderPos(recommendations[i]) < LadderPos(recommendations[j])
                /\ Severity(recommendations[j]) = 3 => Severity(recommendations[i]) = 3

\* C9 witness: a list in which a MEDIUM contrast entry precedes a HIGH
\* errors entry, after the two CRITICAL ones.
C9_Witness ==
    /\ RecDone /\ Len(recommendations) >= 4
    /\ recommendations[1].about = "aria" /\ recommendations[2].about = "alt"
    /\ recommendations[3] = Rec("MEDIUM", "contrast", 2)
    /\ recommendations[4] = Rec("HIGH", "errors", 21)

----------------------------------------------------------------------------
(* One run_audit call on drawn upstream answers *)

MaxAudits == 4

\* An entry of lighthouseResult.audits; dict = FALSE is an entry that is
\* no JSON object.
Audit(id, score, title) == [id |-> id, dict |-> TRUE, score |-> score, title |-> title]
NotADict(id) == [id |-> id, dict |-> FALSE, score |-> Absent, title |-> NoTitle]

\* The audits a body can hold, in the order the report lists them: failed
\* ones (by id or title about ARIA or alt text, without title, with a null
\* title), a passed one (no score key), one not applicable (null score),
\* and two malformed ones, not last.
AuditCatalog ==
    << Audit("aria-roles", Int_(0), Title("[role] values are valid")),
       Audit("button-name", Absent, Title("Buttons have an accessible name")),
       Audit("color-contrast", Int_(0), NoTitle),
       Audit("html-has-lang", Int_(0), NullTitle),
       Audit("image-alt", Float_(50), Title("Image elements have [alt] attributes")),
       Audit("label", Str_, Title("Form elements have associated labels")),
       Audit("link-name", None, Title("Links have a discernible name")),
       NotADict("list"),
       Audit("input-image-alt", Int_(0), Title("Input buttons have discernible text")),
       Audit("tabindex", Int_(0), Title("No element has a [tabindex] value greater than 0")) >>

\* The audits object of a body: up to MaxAudits entries of the catalog, in
\* the catalog's order (the keys of a JSON object are distinct).
AuditLists ==
    { [i \in 1..Len(pick) |-> AuditCatalog[pick[i]]] :
        pick \in { f \in UNION { [1..n -> 1..Len(AuditCatalog)] : n \in 0..MaxAudits } :
                      \A i, j \in 1..Len(f) : i < j => f[i] < f[j] } }

LhResponse(outcome, score, audits) ==
    [outcome |-> outcome, score |-> score, audits |-> audits]
LhFailures ==
    { LhResponse(o, Absent, <<>>) : o \in {"exception", "status", "badjson"} }
\* Scores 0.87 and 1.5, a missing or null score, a score that is no number.
LhScores == {Absent, Float_(87), Float_(150), Str_}
LhResponses ==
    LhFailures \cup { LhResponse("ok", sc, a) : sc \in LhScores, a \in AuditLists }

WaveResponse(outcome, has_categories, error, contrast) ==
    [outcome |-> outcome, has_categories |-> has_categories,
     error |-> error, contrast |-> contrast]
WaveFailures ==
    { WaveResponse(o, FALSE, Absent, Absent) : o \in {"exception", "status", "badjson"} }
\* No category, a category without count, counts -2, 3 and 2.5, a count
\* that is no number.
WaveCounts == {Absent, None, Int_(-2), Int_(3), Float_(250), Str_}
WaveResponses ==
    WaveFailures \cup { WaveResponse("ok", FALSE, Absent, Absent) }
        \cup { WaveResponse("ok", TRUE, e, c) : e \in WaveCounts, c \in WaveCounts }

SSOTarget == Target("Global", "Login (SSO)", "SSO_LOGIN")

InitAudit ==
    /\ pc = "audit_call"
    /\ tie_up \in BOOLEAN
    /\ r_lh \in LhResponses
    /\ r_w \in WaveResponses
    /\ record = Idle
    /\ warnings = <<>>
    /\ ScoreIdle /\ RecIdle /\ LoopIdle /\ AggIdle

RunAudit ==
    /\ pc = "audit_call"
    /\ tie_up \in BOOLEAN
    /\ LET out == run_audit(SSOTarget, r_lh, r_w)
       IN  /\ warnings' = out.warnings
           /\ IF out.raised
              THEN pc' = "audit_raised" /\ record' = record
              ELSE pc' = "audit_done" /\ record' = out.record
    /\ UNCHANGED <<tie_up, r_lh, r_w, scoreVars, recVars, loopVars, aggVars>>

NextAudit == RunAudit

SpecAudit == InitAudit /\ [][NextAudit]_vars

----------------------------------------------------------------------------
(* Claims about run_audit's record, checked under SpecAudit *)

AuditDone == pc = "audit_done"

\* C6 as stated: every record run_audit returns has Score and Lighthouse
\* in [0,100], the four issue counts >= 0 and at most 3 top failed audits,
\* whatever the upstream payloads hold.
C6_Original ==
    AuditDone =>
        /\ record.Score >= 0 /\ record.Score <= 10000
        /\ record.Lighthouse >= 0 /\ record.Lighthouse <= 10000
        /\ record.WaveErrors >= 0
        /\ record.ContrastIssues >= 0
        /\ record.AriaIssues >= 0
        /\ record.AltTextIssues >= 0
        /\ Len(record.TopFailedAudits) <= 3

\* A count or score that int() / float() accepts.
WellFormed(value) == value.t \in {"int", "float"}

\* An audit entry that the loop can read and that counts as failed.
ReadableFailed(a) ==
    /\ a.dict
    /\ WellFormed(Get(a.score, Int_(1)))
    /\ PyFloat(Get(a.score, Int_(1))) < 100

\* The number of entries of the whole audits object that satisfy P.
CountAudits(audits, P(_)) == Cardinality({ i \in 1..Len(audits) : P(audits[i]) })

IsAriaFailure(a) == ReadableFailed(a) /\ HasAria(a.id)
IsAltFailure(a) ==
    ReadableFailed(a)
        /\ (HasImageAlt(a.id) \/ HasAlt(IF a.title.t = "absent" THEN Title("Unknown") ELSE a.title))

\* C7 as stated: in the record, every well-formed field of a response keeps
\* its upstream value whatever is malformed beside it: a WAVE count next to
\* a non-numeric one, the Lighthouse score, and the ARIA and alt-text counts
\* of all readable audits next to a malformed audit entry or score.
C7_Original ==
    AuditDone =>
        /\ (r_w.outcome = "ok" /\ r_w.has_categories) =>
               /\ WellFormed(r_w.error) => record.WaveErrors = PyInt(r_w.error)
               /\ WellFormed(r_w.contrast) => record.ContrastIssues = PyInt(r_w.contrast)
        /\ r_lh.outcome = "ok" =>
               /\ WellFormed(r_lh.score) => record.Lighthouse = PyFloat(r_lh.score) * 100
               /\ record.AriaIssues = CountAudits(r_lh.audits, IsAriaFailure)
               /\ record.AltTextIssues = CountAudits(r_lh.audits, IsAltFailure)

----------------------------------------------------------------------------
(* Claims about run_audit's warnings, checked under SpecAudit *)

\* The call has ended, with a record or with an exception.
AuditEnded == pc \in {"audit_done", "audit_raised"}

\* st.warning was called about the Lighthouse call / about the WAVE call.
LhWarned == \E i \in 1..Len(warnings) : warnings[i] = "Lighthouse error"
WaveWarned ==
    \E i \in 1..Len(warnings) :
        warnings[i] \in {"WAVE request error", "WAVE API returned status",
                         "WAVE parsing error"}

\* An upstream call that fails: an exception or timeout, a status other
\* than 200, a body that does not parse.
CallFails(resp) == resp.outcome \in {"exception", "status", "badjson"}

\* An upstream call that succeeds: status 200 and a body in which every
\* value that run_audit reads can be read.
LhSucceeds ==
    /\ r_lh.outcome = "ok"
    /\ Get(r_lh.score, None).t # "str"
    /\ \A i \in 1..Len(r_lh.audits) :
           r_lh.audits[i].dict /\ Get(r_lh.audits[i].score, Int_(1)).t # "str"
WaveSucceeds ==
    /\ r_w.outcome = "ok"
    /\ r_w.has_categories =>
           Get(r_w.error, None).t # "str" /\ Get(r_w.contrast, None).t # "str"

\* C11 as stated: when run_audit has ended, each upstream call that failed
\* (exception or timeout, non-200 status, unparsable body) has a warning
\* about its source, for Lighthouse and for WAVE, and a call that
\* succeeded has none.
C11_Original ==
    AuditEnded =>
        /\ CallFails(r_lh) => LhWarned
        /\ CallFails(r_w) => WaveWarned
        /\ LhSucceeds => ~LhWarned
        /\ WaveSucceeds => ~WaveWarned

----------------------------------------------------------------------------
(* The Start Audit button: one run_audit call per target, in order *)

NumCountries == 2

\* COUNTRIES, in the order of the configuration, and each country's pages,
\* in the order of its dict (page_type.title() applied).
CountryNames == <<"France", "UK", "Ireland", "Italy", "Poland", "Denmark">>
COUNTRIES == SubSeq(CountryNames, 1, NumCountries)
PageTypes == <<"Home", "Category", "Product">>

\* What st.multiselect can return: the countries picked, none twice.
Selections ==
    { sel \in UNION { [1..n -> {COUNTRIES[i] : i \in 1..Len(COUNTRIES)}] : n \in 0..Len(COUNTRIES) } :
        \A i, j \in 1..Len(sel) : i # j => sel[i] # sel[j] }

\* The calls the handler makes, in order: the SSO login, then for each
\* selected country its three pages.
Targets(selection) ==
    <<SSOTarget>>
        \o [k \in 1..(3 * Len(selection)) |->
               LET country == selection[((k - 1) \div 3) + 1]
                   page == PageTypes[((k - 1) % 3) + 1]
               IN  Target(country, page, country)]

\* The upstream answers drawn per target: each failure mode of each call,
\* one good answer, and one body with a null audit title.
LoopLhResponses ==
    LhFailures
        \cup { LhResponse("ok", Float_(87), <<Audit("aria-roles", Int_(0), Title("[role] values are valid"))>>),
               LhResponse("ok", Float_(87), <<Audit("html-has-lang", Int_(0), NullTitle)>>) }
LoopWaveResponses ==
    WaveFailures \cup { WaveResponse("ok", TRUE, Int_(3), Int_(2)) }

Init ==
    /\ pc = "idle"
    /\ tie_up \in BOOLEAN
    /\ country_selection \in Selections
    /\ results = <<>>
    /\ current = 0
    /\ ScoreIdle /\ RecIdle /\ CallIdle /\ AggIdle

\* The button is pressed: without a selection only a warning is shown.
StartAudit ==
    /\ pc = "idle"
    /\ tie_up \in BOOLEAN
    /\ pc' = IF country_selection = <<>> THEN "no_selection" ELSE "auditing"
    /\ results' = <<>>
    /\ current' = 0
    /\ UNCHANGED <<tie_up, country_selection, callVars, scoreVars, recVars, aggVars>>

\* results.append(run_audit(...)) for the next target; an exception that
\* run_audit lets out ends the script run.  The warnings of a call are
\* followed under SpecAudit, not here.
AuditNext ==
    /\ pc = "auditing"
    /\ current < Len(Targets(country_selection))
    /\ \E lh_resp \in LoopLhResponses, w_resp \in LoopWaveResponses :
           LET out == run_audit(Targets(country_selection)[current + 1], lh_resp, w_resp)
           IN  IF out.raised
               THEN pc' = "raised" /\ UNCHANGED <<results, current>>
               ELSE /\ pc' = pc
                    /\ results' = Append(results, out.record)
                    /\ current' = current + 1
    /\ UNCHANGED <<tie_up, country_selection, callVars, scoreVars, recVars, aggVars>>

\* df = pd.DataFrame(results) after the last target.
AuditComplete ==
    /\ pc = "auditing"
    /\ current = Len(Targets(country_selection))
    /\ pc' = "done"
    /\ df' = results
    /\ UNCHANGED <<tie_up, country_selection, results, current, callVars, scoreVars, recVars,
                   metrics, pivot_df, summary>>

\* display_dashboard(df): the metrics and the heatmap's pivot table.
DisplayDashboard ==
    /\ pc \in {"done", "uploaded"}
    /\ metrics' = Metrics(df)
    /\ pivot_df' = PivotFirst(df)
    /\ pc' = "displayed"
    /\ UNCHANGED <<tie_up, df, summary, callVars, loopVars, scoreVars, recVars>>

\* The "Analyze Results with AI" button: the summary sent to the summarizer.
AnalyzeWithAI ==
    /\ pc = "displayed"
    /\ summary' = Summary(df)
    /\ pc' = "analyzed"
    /\ UNCHANGED <<tie_up, df, metrics, pivot_df, callVars, loopVars, scoreVars, recVars>>

Next == StartAudit \/ AuditNext \/ AuditComplete \/ DisplayDashboard \/ AnalyzeWithAI

Spec == Init /\ [][Next]_vars

\* C5 as stated: the audit run never ends in an exception, and when it is
\* complete the results hold exactly one record per target, in the order of
\* the targets, whatever the upstream calls answered.
C5_Original ==
    /\ pc # "raised"
    /\ pc = "done" =>
           /\ Len(results) = Len(Targets(country_selection))
           /\ \A i \in 1..Len(results) :
                  /\ results[i].Country = Targets(country_selection)[i].country
                  /\ results[i].PageType = Targets(country_selection)[i].page_type

----------------------------------------------------------------------------
(* The dashboard over an uploaded CSV *)

MaxRows == 3

\* A row of an uploaded CSV, with the columns the aggregation reads; rows
\* may repeat a (country, page type) pair.
CsvRow(country, page_type, score, issues) ==
    [Country |-> country, PageType |-> page_type, URL |-> country, Score |-> score,
     Lighthouse |-> score, WaveErrors |-> 4 * issues, ContrastIssues |-> 3 * issues,
     AriaIssues |-> issues, AltTextIssues |-> 2 * issues,
     TopFailedAudits |-> <<>>, Recommendations |-> <<NoMajorIssues>>]

CsvRows ==
    { CsvRow(c, p, sc, n) : c \in {"France", "UK"}, p \in {"Home", "Category"},
                            sc \in {0, 8330, 10000}, n \in {0, 1} }

InitUpload ==
    /\ pc = "uploaded"
    /\ tie_up \in BOOLEAN
    /\ df \in UNION { [1..n -> CsvRows] : n \in 1..MaxRows }
    /\ metrics = Idle /\ pivot_df = Idle /\ summary = Idle
    /\ ScoreIdle /\ RecIdle /\ CallIdle /\ LoopIdle

NextUpload == DisplayDashboard \/ AnalyzeWithAI

SpecUpload == InitUpload /\ [][NextUpload]_vars

\* The rows of df with the given country and page type, by index.
Cell(country, page_type) ==
    { i \in 1..Len(df) : df[i].Country = country /\ df[i].PageType = page_type }
InCountry(country) == { i \in 1..Len(df) : df[i].Country = country }

\* The sum of a column over a set of row indices.
RECURSIVE Total(_, _)
Total(idx, col) ==
    IF idx = {} THEN 0
    ELSE LET i == CHOOSE i \in idx : TRUE IN df[i][col] + Total(idx \ {i}, col)

\* C10 as stated: with several rows per (country, page type), the overall
\* mean score, each country's mean and sums, the issue totals and every
\* pivot cell are computed over all rows of their group; a pivot cell is the
\* mean of its rows.
C10_Original ==
    pc = "analyzed" =>
        /\ summary.average_score = Round1(Total(1..Len(df), "Score"), Len(df))
        /\ summary.total_aria_issues = Total(1..Len(df), "AriaIssues")
        /\ summary.total_alt_issues = Total(1..Len(df), "AltTextIssues")
        /\ summary.total_contrast = Total(1..Len(df), "ContrastIssues")
        /\ summary.total_wave_errors = Total(1..Len(df), "WaveErrors")
        /\ \A i \in 1..Len(df) :
               LET c == df[i].Country
                   p == df[i].PageType
               IN  /\ summary.by_country[c].Score
                          = Round1(Total(InCountry(c), "Score"), Cardinality(InCountry(c)))
                   /\ summary.by_country[c].WaveErrors = Total(InCountry(c), "WaveErrors")
                   /\ pivot_df[<<c, p>>] * Cardinality(Cell(c, p))
                          = Total(Cell(c, p), "Score")

====
